---- MODULE Spec2Model ----
(***************************************************************************)
(* Project Agent (src/src/index.js): the action handlers getIssue,         *)
(* getSprint, getPRStatus and searchPRs, with their helpers fetchLinkedPRs,*)
(* getGitHubToken, github and fetchChecks.                                 *)
(*                                                                         *)
(* Spec         one query per behaviour, response by response, with the    *)
(*              two concurrent GitHub fetches of getPRStatus interleaved.  *)
(* SpecReviews  the latest-review-per-user loop and the partition.         *)
(* SpecChecks   the check-run rollup of fetchChecks.                       *)
(* SpecLinked   the development-panel traversal of fetchLinkedPRs.         *)
(***************************************************************************)
EXTENDS Integers, Sequences, FiniteSets, TLC

VARIABLES
    query,            \* the handler that was invoked, "none" before
    fetchState,       \* per upstream fetch: how far its request got
    resp,             \* per upstream fetch: the kind of response received
    doc,              \* per upstream fetch: the parsed JSON body
    outcome,          \* what the handler's promise settled to
    token,            \* storage.get('GITHUB_TOKEN') is set
    now,              \* new Date() read by getSprint
    reviews,          \* getPRStatus: the review list being traversed
    idx,              \* getPRStatus: reviews consumed by the for-of loop
    reviewsByUser,    \* getPRStatus: the object used as a map
    approved,         \* getPRStatus: result list
    changesRequested, \* getPRStatus: result list
    runs,             \* fetchChecks: data.check_runs || []
    checks,           \* fetchChecks: the returned summary
    panel,            \* fetchLinkedPRs: the parsed panel document
    prs               \* fetchLinkedPRs: the returned list

queryVars == <<query, fetchState, resp, doc, outcome, token, now>>
reviewVars == <<reviews, idx, reviewsByUser, approved, changesRequested>>
checkVars == <<runs, checks>>
linkedVars == <<panel, prs>>
vars == <<queryVars, reviewVars, checkVars, linkedVars>>

----------------------------------------------------------------------------
(* JavaScript values *)

\* null and undefined, for values that are otherwise objects
Null == [null |-> TRUE]

Undefined == [undefined |-> TRUE]

\* null or undefined, for values that are otherwise strings
Absent == "(absent)"

Truthy(x) == x # Null /\ x # Undefined

\* a JavaScript number (daysRemaining is a number or null)
Num(n) == [num |-> n]

\* a response body on which response.json() rejects
Malformed == [malformed |-> TRUE]

RECURSIVE SeqsUpTo(_, _)
SeqsUpTo(S, n) ==
    IF n = 0 THEN {<<>>}
    ELSE LET shorter == SeqsUpTo(S, n - 1)
         IN  shorter \cup {Append(s, x) : s \in {t \in shorter : Len(t) = n - 1}, x \in S}

----------------------------------------------------------------------------
(* Dates.  An ISO-8601 string is an instant in milliseconds written with   *)
(* some zone offset; new Date(string) keeps the instant and drops the      *)
(* notation.                                                               *)

HourMs == 1000 * 60 * 60

\* 1000 * 60 * 60 * 24 of getSprint
MsPerDay == 1000 * 60 * 60 * 24

IsoString(ms, zone) == [ms |-> ms, zone |-> zone]

InvalidDate == [valid |-> FALSE, ms |-> 0]

\* new Date(x): undefined gives an Invalid Date (NaN), a string its instant
NewDate(x) ==
    IF x = Undefined THEN InvalidDate ELSE [valid |-> TRUE, ms |-> x.ms]

\* a > b on Dates: false whenever either side is NaN
DateGreater(a, b) == a.valid /\ b.valid /\ a.ms > b.ms

\* Math.ceil(a / b) for b > 0
Ceil(a, b) == -((-a) \div b)

Max(a, b) == IF a >= b THEN a ELSE b

DaysRemaining_Floor(endDate, nowMs) ==
    IF ~Truthy(endDate) THEN Null
    ELSE Num(Max(0, (NewDate(endDate).ms - nowMs) \div MsPerDay))

\* getSprint: endDate, now, daysRemaining
DaysRemaining(endDate, nowMs) ==
    IF ~Truthy(endDate) THEN Null
    ELSE Num(Max(0, Ceil(NewDate(endDate).ms - nowMs, MsPerDay)))

----------------------------------------------------------------------------
(* getPRStatus: latest review per user.  reviewsByUser is a plain object:  *)
(* its own keys in insertion order, their values, and the properties every *)
(* object inherits from Object.prototype.                                  *)

ObjectPrototypeKeys ==
    {"constructor", "toString", "valueOf", "hasOwnProperty",
     "isPrototypeOf", "propertyIsEnumerable", "toLocaleString"}

\* what obj[k] gives for an inherited key: a function object
Inherited == [inherited |-> TRUE]

EmptyObject == [keys |-> <<>>, val |-> <<>>]

GetProp(obj, k) ==
    IF k \in DOMAIN obj.val THEN obj.val[k]
    ELSE IF k \in ObjectPrototypeKeys THEN Inherited
    ELSE Undefined

SetProp(obj, k, v) ==
    [keys |-> IF k \in DOMAIN obj.val THEN obj.keys ELSE Append(obj.keys, k),
     val  |-> (k :> v) @@ obj.val]

\* existing.date
DateField(existing) ==
    IF "date" \in DOMAIN existing THEN existing.date ELSE Undefined

\* one iteration of the for-of loop over reviews
ReviewLoopBody(obj, review) ==
    LET user == review.user.login
        existing == GetProp(obj, user)
        reviewDate == NewDate(review.submitted_at)
    IN  IF ~Truthy(existing) \/ DateGreater(reviewDate, NewDate(DateField(existing)))
        THEN SetProp(obj, user, [state |-> review.state, date |-> review.submitted_at])
        ELSE obj

RECURSIVE LatestReviews(_, _)
LatestReviews(obj, revs) ==
    IF revs = <<>> THEN obj
    ELSE LatestReviews(ReviewLoopBody(obj, Head(revs)), Tail(revs))

\* the loop over Object.entries(reviewsByUser)
UsersInState(obj, st) == SelectSeq(obj.keys, LAMBDA u : obj.val[u].state = st)

ReviewPartition(obj) ==
    [approved |-> UsersInState(obj, "APPROVED"),
     changesRequested |-> UsersInState(obj, "CHANGES_REQUESTED")]

----------------------------------------------------------------------------
(* getPRStatus: mergeConflicts.  mergeable is "true", "false", "null" or   *)
(* "undefined".                                                            *)

MergeConflicts_Falsy(pr) ==
    pr.mergeable # "true" \/ pr.mergeable_state = "dirty"

MergeConflicts(pr) ==
    pr.mergeable = "false" \/ pr.mergeable_state = "dirty"

----------------------------------------------------------------------------
(* fetchChecks: the rollup of data.check_runs *)

IsPassed(c) == c.conclusion = "success"

IsFailed_NotSuccess(c) == c.conclusion # "success"

IsFailed(c) == c.conclusion # Absent /\ c.conclusion # "success"

IsPending_Queued(c) == c.status = "queued"

IsPending(c) == c.status # "completed"

\* runs.filter(...).map(c => c.name)
FailedNames(rs) ==
    LET failed == SelectSeq(rs, IsFailed)
    IN  [n \in 1..Len(failed) |-> failed[n].name]

CheckSummary(rs) ==
    [total |-> Len(rs),
     passed |-> Len(SelectSeq(rs, IsPassed)),
     failed |-> Len(SelectSeq(rs, IsFailed)),
     pending |-> Len(SelectSeq(rs, IsPending)),
     failedNames |-> FailedNames(rs)]

\* data.check_runs || []
CheckRunsOf(data) ==
    IF "check_runs" \in DOMAIN data THEN data.check_runs ELSE <<>>

----------------------------------------------------------------------------
(* fetchLinkedPRs.  A string is a sequence of tokens: a URL of the texts   *)
(* the pattern names ("github.com", "/", "pull", the digits) and of other  *)
(* slash-free text; a status of its letters.  A string-valued field is     *)
(* [chars |-> tokens] or Undefined.                                        *)

Digits == <<"0", "1", "2", "3", "4", "5", "6", "7", "8", "9">>

IsDigit(t) == \E n \in 1..Len(Digits) : Digits[n] = t

DigitValue(t) == (CHOOSE n \in 1..Len(Digits) : Digits[n] = t) - 1

NotSlash(t) == t # "/"

\* [^/]+ from i on: the last index of the longest run without a slash
RECURSIVE SegmentEnd(_, _)
SegmentEnd(s, i) ==
    IF i <= Len(s) /\ NotSlash(s[i]) THEN SegmentEnd(s, i + 1) ELSE i - 1

\* \d+ from i on: the last index of the longest run of digits
RECURSIVE DigitsEnd(_, _)
DigitsEnd(s, i) ==
    IF i <= Len(s) /\ IsDigit(s[i]) THEN DigitsEnd(s, i + 1) ELSE i - 1

\* parseInt(digits, 10)
RECURSIVE ParseInt(_)
ParseInt(ds) ==
    IF ds = <<>> THEN 0
    ELSE 10 * ParseInt(SubSeq(ds, 1, Len(ds) - 1)) + DigitValue(ds[Len(ds)])

\* /github\.com\/([^/]+\/[^/]+)\/pull\/(\d+)/ tried at position i
MatchAt(s, i) ==
    LET o1 == i + 2
        o2 == SegmentEnd(s, o1)
        r1 == o2 + 2
        r2 == SegmentEnd(s, r1)
        d1 == r2 + 4
        d2 == DigitsEnd(s, d1)
        ok == /\ i + 1 <= Len(s)
              /\ s[i] = "github.com" /\ s[i + 1] = "/"
              /\ o2 >= o1 /\ o2 + 1 <= Len(s) /\ s[o2 + 1] = "/"
              /\ r2 >= r1 /\ r2 + 3 <= Len(s)
              /\ s[r2 + 1] = "/" /\ s[r2 + 2] = "pull" /\ s[r2 + 3] = "/"
              /\ d2 >= d1
    IN  IF ok
        THEN [ok |-> TRUE, repo |-> SubSeq(s, o1, r2), digits |-> SubSeq(s, d1, d2)]
        ELSE [ok |-> FALSE]

\* pr.url?.match(...): the leftmost match, Null when there is none
UrlMatch(url) ==
    IF url = Undefined THEN Undefined
    ELSE LET s == url.chars
             at == {i \in 1..Len(s) : MatchAt(s, i).ok}
         IN  IF at = {} THEN Null
             ELSE MatchAt(s, CHOOSE i \in at : \A j \in at : i <= j)

UpperLetters ==
    <<"A", "B", "C", "D", "E", "F", "G", "H", "I", "J", "K", "L", "M",
      "N", "O", "P", "Q", "R", "S", "T", "U", "V", "W", "X", "Y", "Z">>

LowerLetters ==
    <<"a", "b", "c", "d", "e", "f", "g", "h", "i", "j", "k", "l", "m",
      "n", "o", "p", "q", "r", "s", "t", "u", "v", "w", "x", "y", "z">>

ToLowerCaseChar(c) ==
    IF \E n \in 1..Len(UpperLetters) : UpperLetters[n] = c
    THEN LowerLetters[CHOOSE n \in 1..Len(UpperLetters) : UpperLetters[n] = c]
    ELSE c

ToLowerCase(chars) == [n \in 1..Len(chars) |-> ToLowerCaseChar(chars[n])]

Unknown == <<"u", "n", "k", "n", "o", "w", "n">>

LinkedPRState_AsIs(status) ==
    IF status = Undefined THEN Unknown
    ELSE IF status.chars = <<>> THEN Unknown ELSE status.chars

\* pr.status?.toLowerCase() || 'unknown'
LinkedPRState(status) ==
    IF status = Undefined THEN Unknown
    ELSE LET lowered == ToLowerCase(status.chars)
         IN  IF lowered = <<>> THEN Unknown ELSE lowered

\* the body of the inner loop: what one reference pushes onto prs
LinkedPROf(pr) ==
    LET match == UrlMatch(pr.url)
    IN  IF Truthy(match)
        THEN <<[repo |-> match.repo,
                number |-> ParseInt(match.digits),
                state |-> LinkedPRState(pr.status)]>>
        ELSE <<>>

\* detail.pullRequests || []
PullRequestsOf(detail) ==
    IF "pullRequests" \in DOMAIN detail THEN detail.pullRequests ELSE <<>>

\* data.detail || []
DetailOf(data) ==
    IF "detail" \in DOMAIN data THEN data.detail ELSE <<>>

RECURSIVE LinkedPRsOfRefs(_)
LinkedPRsOfRefs(refs) ==
    IF refs = <<>> THEN <<>>
    ELSE LinkedPROf(Head(refs)) \o LinkedPRsOfRefs(Tail(refs))

RECURSIVE LinkedPRsOfGroups(_)
LinkedPRsOfGroups(groups) ==
    IF groups = <<>> THEN <<>>
    ELSE LinkedPRsOfRefs(PullRequestsOf(Head(groups)))
         \o LinkedPRsOfGroups(Tail(groups))

\* the two nested loops of fetchLinkedPRs
ExtractPRs(data) == LinkedPRsOfGroups(DetailOf(data))

FetchLinkedPRs_Rethrow(response) ==
    IF response.kind = "ok" /\ response.body # Malformed
    THEN [threw |-> FALSE, prs |-> ExtractPRs(response.body)]
    ELSE [threw |-> TRUE, prs |-> <<>>]

\* fetchLinkedPRs: try { ... } catch { return [] }; it never rejects
FetchLinkedPRs(response) ==
    IF response.kind = "reject" THEN [threw |-> FALSE, prs |-> <<>>]
    ELSE IF response.kind = "error" THEN [threw |-> FALSE, prs |-> <<>>]
    ELSE IF response.body = Malformed THEN [threw |-> FALSE, prs |-> <<>>]
    ELSE [threw |-> FALSE, prs |-> ExtractPRs(response.body)]

----------------------------------------------------------------------------
(* Upstream documents *)

Url(tokens) == [chars |-> tokens]

\* https://github.com/acme/widgets/pull/42
WidgetsPull42 ==
    Url(<<"https:", "/", "/", "github.com", "/", "acme", "/", "widgets",
          "/", "pull", "/", "4", "2">>)

StatusOPEN == [chars |-> <<"O", "P", "E", "N">>]

StatusMerged == [chars |-> <<"M", "e", "r", "g", "e", "d">>]

IssueDocs ==
    {[id |-> "10001", key |-> "PROJ-1",
      fields |-> [summary |-> "Fix login", status |-> st, assignee |-> who]] :
        st \in {Undefined, [name |-> "In Progress"]},
        who \in {Null, [displayName |-> "Ada"]}}

SamplePanels ==
    {[detail |-> <<>>],
     [detail |-> <<[pullRequests |-> <<[url |-> WidgetsPull42, status |-> StatusOPEN]>>]>>]}

BoardDocs == {[total |-> 0], [values |-> <<>>], [values |-> <<[id |-> 7]>>]}

SprintEndDates ==
    {Undefined} \cup
    {IsoString(ms, 0) :
        ms \in {MsPerDay, 2 * MsPerDay, 2 * MsPerDay + 1, 3 * MsPerDay,
                3 * MsPerDay + 1, 2 * MsPerDay + 36 * HourMs}}

\* the instants new Date() may give
Nows == {2 * MsPerDay, 2 * MsPerDay + 1}

Sprints ==
    {[id |-> 3, name |-> "Sprint 1", goal |-> g, endDate |-> e] :
        g \in {Absent, "Ship it"}, e \in SprintEndDates}

SprintDocs == {[values |-> <<>>]} \cup {[values |-> <<sp>>] : sp \in Sprints}

SprintIssuesDocs ==
    {[total |-> 0], [issues |-> <<>>]} \cup {[issues |-> <<i>>] : i \in IssueDocs}

\* the JSON body of a non-success response
ErrorDoc == [message |-> "Not Found"]

PRDocs ==
    {[number |-> 42, title |-> "Add widget", user |-> [login |-> "octocat"],
      state |-> "open", draft |-> FALSE,
      mergeable |-> m, mergeable_state |-> ms,
      additions |-> 10, deletions |-> 2, changed_files |-> 1,
      head |-> [sha |-> "abc123"]] :
        m \in {"true", "false", "null", "undefined"},
        ms \in {"clean", "dirty", "unknown"}}

Review(login, state, at) ==
    [user |-> [login |-> login], state |-> state, submitted_at |-> at]

SampleReviewDocs ==
    {<<>>,
     <<Review("alice", "APPROVED", IsoString(HourMs, 0))>>,
     <<Review("alice", "APPROVED", IsoString(HourMs, 0)),
       Review("alice", "CHANGES_REQUESTED", IsoString(25 * HourMs, 0))>>,
     <<Review("bob", "COMMENTED", IsoString(HourMs, 0)),
       Review("alice", "APPROVED", IsoString(HourMs, 1))>>}

CheckRun(name, status, conclusion) ==
    [name |-> name, status |-> status, conclusion |-> conclusion]

SampleCheckDocs ==
    {[total_count |-> 0],
     [check_runs |-> <<>>],
     [check_runs |-> <<CheckRun("build", "completed", "success")>>],
     [check_runs |-> <<CheckRun("build", "completed", "failure"),
                       CheckRun("test", "in_progress", Absent)>>]}

ApiReposPrefix == "https://api.github.com/repos/"

SearchHit ==
    [number |-> 42, title |-> "Add widget", user |-> [login |-> "octocat"],
     repository_url |-> <<ApiReposPrefix, "acme/widgets">>, state |-> "open"]

SearchDocs == {[total_count |-> 0], [items |-> <<>>], [items |-> <<SearchHit>>]}

FetchNames ==
    {"issue", "panel", "board", "sprint", "issues",
     "pr", "reviews", "checks", "search"}

GithubFetches == {"pr", "reviews", "checks", "search"}

OkBodies(f) ==
    CASE f = "issue"   -> IssueDocs
      [] f = "panel"   -> SamplePanels \cup {Malformed}
      [] f = "board"   -> BoardDocs
      [] f = "sprint"  -> SprintDocs
      [] f = "issues"  -> SprintIssuesDocs \cup {Malformed}
      [] f = "pr"      -> PRDocs
      [] f = "reviews" -> SampleReviewDocs
      [] f = "checks"  -> SampleCheckDocs
      [] f = "search"  -> SearchDocs

\* GitHub's error bodies are JSON; Jira's need not be
ErrorBodies(f) == IF f \in GithubFetches THEN {ErrorDoc} ELSE {ErrorDoc, Malformed}

\* what an upstream request can come back with: a rejected request (a
\* transport fault), a non-success response, a success response
Responses(f) ==
    {[kind |-> "reject", body |-> Undefined]}
    \cup {[kind |-> "error", body |-> b] : b \in ErrorBodies(f)}
    \cup {[kind |-> "ok", body |-> b] : b \in OkBodies(f)}

----------------------------------------------------------------------------
(* Results *)

Pending == [kind |-> "pending"]

Returned(v) == [kind |-> "returned", value |-> v]

Threw(message) == [kind |-> "threw", error |-> message]

\* x?.name, x?.displayName || null
NameOf(x) == IF Truthy(x) THEN x.name ELSE Absent

DisplayNameOf(x) == IF Truthy(x) THEN x.displayName ELSE Absent

\* the fields getIssue and getSprint copy from an issue document
IssueFields(issue) ==
    [key |-> issue.key,
     summary |-> issue.fields.summary,
     status |-> NameOf(issue.fields.status),
     assignee |-> DisplayNameOf(issue.fields.assignee)]

IssueResult(issue, linked) ==
    [key |-> issue.key,
     summary |-> issue.fields.summary,
     status |-> NameOf(issue.fields.status),
     assignee |-> DisplayNameOf(issue.fields.assignee),
     prs |-> linked]

\* boards.values?.[0], sprints.values?.[0]
FirstValue(data) ==
    IF "values" \in DOMAIN data /\ data.values # <<>> THEN data.values[1]
    ELSE Undefined

\* issuesData.issues || []
IssuesOf(data) == IF "issues" \in DOMAIN data THEN data.issues ELSE <<>>

NoActiveSprint == [name |-> Absent, message |-> "No active sprint", issues |-> <<>>]

SprintResult(sp, issuesData, nowMs) ==
    [name |-> sp.name,
     goal |-> sp.goal,
     daysRemaining |-> DaysRemaining(sp.endDate, nowMs),
     issues |-> [n \in 1..Len(IssuesOf(issuesData)) |->
                    IssueFields(IssuesOf(issuesData)[n])]]

PRStatus(pr, partition, summary) ==
    [number |-> pr.number,
     title |-> pr.title,
     author |-> pr.user.login,
     state |-> pr.state,
     draft |-> pr.draft,
     mergeable |-> pr.mergeable,
     mergeConflicts |-> MergeConflicts(pr),
     additions |-> pr.additions,
     deletions |-> pr.deletions,
     files |-> pr.changed_files,
     reviews |-> partition,
     checks |-> summary]

\* pr.repository_url.replace('https://api.github.com/repos/', '')
RECURSIVE RemoveFirst(_, _)
RemoveFirst(tokens, t) ==
    IF tokens = <<>> THEN <<>>
    ELSE IF Head(tokens) = t THEN Tail(tokens)
    ELSE <<Head(tokens)>> \o RemoveFirst(Tail(tokens), t)

SearchHitFields(pr) ==
    [number |-> pr.number,
     title |-> pr.title,
     author |-> pr.user.login,
     repo |-> RemoveFirst(pr.repository_url, ApiReposPrefix),
     state |-> pr.state]

\* data.items || []
ItemsOf(data) == IF "items" \in DOMAIN data THEN data.items ELSE <<>>

SearchResult(data) ==
    [n \in 1..Len(ItemsOf(data)) |-> SearchHitFields(ItemsOf(data)[n])]

----------------------------------------------------------------------------
(* The state before any handler runs *)

IdleQuery ==
    /\ query = "none"
    /\ fetchState = [f \in FetchNames |-> "idle"]
    /\ resp = [f \in FetchNames |-> "none"]
    /\ doc = [f \in FetchNames |-> Undefined]
    /\ outcome = Pending
    /\ now = 0

IdleReviews ==
    /\ reviews = <<>>
    /\ idx = 0
    /\ reviewsByUser = EmptyObject
    /\ approved = <<>>
    /\ changesRequested = <<>>

IdleChecks ==
    /\ runs = <<>>
    /\ checks = Undefined

IdleLinked ==
    /\ panel = Undefined
    /\ prs = <<>>

Init ==
    /\ IdleQuery
    /\ token \in BOOLEAN
    /\ IdleReviews
    /\ IdleChecks
    /\ IdleLinked

----------------------------------------------------------------------------
(* getIssue *)

GetIssue ==
    /\ query = "none"
    /\ query' = "getIssue"
    /\ fetchState' = [fetchState EXCEPT !["issue"] = "inflight"]
    /\ UNCHANGED <<resp, doc, outcome, token, now, reviewVars, checkVars, linkedVars>>

IssueCheck_IgnoreStatus(r) ==
    IF r.kind = "reject" THEN "threw" ELSE "continue"

\* what getIssue does with the issue response: if (!response.ok) throw
IssueCheck(r) ==
    IF r.kind = "reject" THEN "threw"
    ELSE IF r.kind = "error" THEN "threw"
    ELSE "continue"

IssueResponse(r) ==
    /\ query = "getIssue"
    /\ fetchState["issue"] = "inflight"
    /\ resp' = [resp EXCEPT !["issue"] = r.kind]
    /\ IF IssueCheck(r) = "threw"
       THEN /\ fetchState' = [fetchState EXCEPT !["issue"] =
                                IF r.kind = "reject" THEN "rejected" ELSE "fulfilled"]
            /\ outcome' = Threw(IF r.kind = "reject" THEN "transport fault"
                                ELSE "Issue not found")
            /\ doc' = doc
       ELSE /\ fetchState' = [fetchState EXCEPT !["issue"] = "fulfilled",
                                                !["panel"] = "inflight"]
            /\ doc' = [doc EXCEPT !["issue"] = r.body]
            /\ outcome' = outcome
    /\ UNCHANGED <<query, token, now, reviewVars, checkVars, linkedVars>>

\* the response to fetchLinkedPRs' request, and the rest of getIssue
PanelResponse(r) ==
    /\ query = "getIssue"
    /\ fetchState["panel"] = "inflight"
    /\ resp' = [resp EXCEPT !["panel"] = r.kind]
    /\ fetchState' = [fetchState EXCEPT !["panel"] =
                        IF r.kind = "reject" THEN "rejected" ELSE "fulfilled"]
    /\ LET linked == FetchLinkedPRs(r)
           parsed == r.kind = "ok" /\ r.body # Malformed
       IN  /\ doc' = [doc EXCEPT !["panel"] = IF parsed THEN r.body ELSE Undefined]
           /\ panel' = IF parsed THEN r.body ELSE Undefined
           /\ prs' = linked.prs
           /\ outcome' = IF linked.threw THEN Threw("linked PR lookup")
                         ELSE Returned(IssueResult(doc["issue"], linked.prs))
    /\ UNCHANGED <<query, token, now, reviewVars, checkVars>>

----------------------------------------------------------------------------
(* getSprint *)

GetSprint ==
    /\ query = "none"
    /\ query' = "getSprint"
    /\ fetchState' = [fetchState EXCEPT !["board"] = "inflight"]
    /\ UNCHANGED <<resp, doc, outcome, token, now, reviewVars, checkVars, linkedVars>>

BoardResponse(r) ==
    /\ query = "getSprint"
    /\ fetchState["board"] = "inflight"
    /\ resp' = [resp EXCEPT !["board"] = r.kind]
    /\ IF r.kind = "reject"
       THEN /\ fetchState' = [fetchState EXCEPT !["board"] = "rejected"]
            /\ outcome' = Threw("transport fault")
            /\ doc' = doc
       ELSE IF r.kind = "error" \/ ~Truthy(FirstValue(r.body))
       THEN /\ fetchState' = [fetchState EXCEPT !["board"] = "fulfilled"]
            /\ outcome' = Threw("No board found for project")
            /\ doc' = doc
       ELSE /\ fetchState' = [fetchState EXCEPT !["board"] = "fulfilled",
                                                !["sprint"] = "inflight"]
            /\ doc' = [doc EXCEPT !["board"] = r.body]
            /\ outcome' = outcome
    /\ UNCHANGED <<query, token, now, reviewVars, checkVars, linkedVars>>

SprintResponse(r) ==
    /\ query = "getSprint"
    /\ fetchState["sprint"] = "inflight"
    /\ resp' = [resp EXCEPT !["sprint"] = r.kind]
    /\ IF r.kind = "reject"
       THEN /\ fetchState' = [fetchState EXCEPT !["sprint"] = "rejected"]
            /\ outcome' = Threw("transport fault")
            /\ doc' = doc
       ELSE IF r.kind = "error" \/ ~Truthy(FirstValue(r.body))
       THEN /\ fetchState' = [fetchState EXCEPT !["sprint"] = "fulfilled"]
            /\ outcome' = Returned(NoActiveSprint)
            /\ doc' = doc
       ELSE /\ fetchState' = [fetchState EXCEPT !["sprint"] = "fulfilled",
                                                !["issues"] = "inflight"]
            /\ doc' = [doc EXCEPT !["sprint"] = r.body]
            /\ outcome' = outcome
    /\ UNCHANGED <<query, token, now, reviewVars, checkVars, linkedVars>>

\* the sprint-issues response (its status is never looked at), new Date(),
\* and the returned record
SprintIssuesResponse(r, t) ==
    /\ query = "getSprint"
    /\ fetchState["issues"] = "inflight"
    /\ resp' = [resp EXCEPT !["issues"] = r.kind]
    /\ IF r.kind = "reject" \/ r.body = Malformed
       THEN /\ fetchState' = [fetchState EXCEPT !["issues"] =
                                IF r.kind = "reject" THEN "rejected" ELSE "fulfilled"]
            /\ outcome' = Threw(IF r.kind = "reject" THEN "transport fault"
                                ELSE "invalid JSON")
            /\ UNCHANGED <<doc, now>>
       ELSE /\ fetchState' = [fetchState EXCEPT !["issues"] = "fulfilled"]
            /\ doc' = [doc EXCEPT !["issues"] = r.body]
            /\ now' = t
            /\ outcome' = Returned(SprintResult(FirstValue(doc["sprint"]), r.body, t))
    /\ UNCHANGED <<query, token, reviewVars, checkVars, linkedVars>>

----------------------------------------------------------------------------
(* github(path), getGitHubToken, getPRStatus, fetchChecks, searchPRs.      *)
(* fetchState of a GitHub fetch follows its github() call: "token" while   *)
(* storage.get is awaited, "inflight" while fetch is, "text" / "json"      *)
(* while the body is read, then "fulfilled" or "rejected".                 *)

GetPRStatus ==
    /\ query = "none"
    /\ query' = "getPRStatus"
    /\ fetchState' = [fetchState EXCEPT !["pr"] = "token", !["reviews"] = "token"]
    /\ UNCHANGED <<resp, doc, outcome, token, now, reviewVars, checkVars, linkedVars>>

SearchPRs ==
    /\ query = "none"
    /\ query' = "searchPRs"
    /\ fetchState' = [fetchState EXCEPT !["search"] = "token"]
    /\ UNCHANGED <<resp, doc, outcome, token, now, reviewVars, checkVars, linkedVars>>

JoinFulfilled_MetadataOnly(fs) == fs["pr"] = "fulfilled"

\* Promise.all([pr, reviews]) fulfils when both have
JoinFulfilled(fs) == fs["pr"] = "fulfilled" /\ fs["reviews"] = "fulfilled"

\* Promise.all([pr, reviews]) rejects as soon as one has
JoinRejected(fs) == fs["pr"] = "rejected" \/ fs["reviews"] = "rejected"

\* The github() call of fetch f settles to st (with error message msg when
\* rejected), and the code awaiting it runs on.
Settle(f, st, msg) ==
    LET fs == [fetchState EXCEPT ![f] = st]
    IN  CASE query = "searchPRs" ->
                /\ fetchState' = fs
                /\ outcome' = IF st = "rejected" THEN Threw(msg)
                              ELSE Returned(SearchResult(doc'[f]))
                /\ UNCHANGED <<reviewVars, checkVars>>
          [] query = "getPRStatus" /\ f \in {"pr", "reviews"} ->
                /\ fetchState' = IF outcome.kind = "pending" /\ JoinFulfilled(fs)
                                 THEN [fs EXCEPT !["checks"] = "token"]
                                 ELSE fs
                /\ outcome' = IF outcome.kind = "pending" /\ JoinRejected(fs)
                              THEN Threw(msg)
                              ELSE outcome
                /\ UNCHANGED <<reviewVars, checkVars>>
          [] query = "getPRStatus" /\ f = "checks" ->
                /\ fetchState' = fs
                /\ IF st = "rejected"
                   THEN /\ outcome' = Threw(msg)
                        /\ UNCHANGED <<reviewVars, checkVars>>
                   ELSE /\ runs' = CheckRunsOf(doc'[f])
                        /\ checks' = CheckSummary(runs')
                        /\ reviews' = doc["reviews"]
                        /\ idx' = Len(reviews')
                        /\ reviewsByUser' = LatestReviews(EmptyObject, reviews')
                        /\ approved' = ReviewPartition(reviewsByUser').approved
                        /\ changesRequested' =
                               ReviewPartition(reviewsByUser').changesRequested
                        /\ outcome' = Returned(PRStatus(doc["pr"],
                                                        ReviewPartition(reviewsByUser'),
                                                        checks'))

\* getGitHubToken resolves inside github()
TokenRead(f) ==
    /\ fetchState[f] = "token"
    /\ IF token
       THEN /\ fetchState' = [fetchState EXCEPT ![f] = "inflight"]
            /\ UNCHANGED <<outcome, reviewVars, checkVars>>
       ELSE /\ doc' = doc
            /\ Settle(f, "rejected", "GITHUB_TOKEN not configured")
    /\ UNCHANGED <<query, resp, doc, token, now, linkedVars>>

BodyReader_IgnoreStatus(kind) == "json"

\* github(): if (!response.ok) { await response.text(); throw }
\*           return response.json()
BodyReader(kind) == IF kind = "ok" THEN "json" ELSE "text"

GithubResponse(f, r) ==
    /\ fetchState[f] = "inflight"
    /\ resp' = [resp EXCEPT ![f] = r.kind]
    /\ IF r.kind = "reject"
       THEN /\ doc' = doc
            /\ Settle(f, "rejected", "transport fault")
       ELSE /\ fetchState' = [fetchState EXCEPT ![f] = BodyReader(r.kind)]
            /\ doc' = IF BodyReader(r.kind) = "json"
                      THEN [doc EXCEPT ![f] = r.body]
                      ELSE doc
            /\ UNCHANGED <<outcome, reviewVars, checkVars>>
    /\ UNCHANGED <<query, token, now, linkedVars>>

\* response.text() or response.json() resolves
BodyRead(f) ==
    /\ fetchState[f] \in {"text", "json"}
    /\ doc' = doc
    /\ IF fetchState[f] = "text"
       THEN Settle(f, "rejected", "GitHub API error")
       ELSE Settle(f, "fulfilled", "")
    /\ UNCHANGED <<query, resp, token, now, linkedVars>>

Next ==
    \/ GetIssue
    \/ \E r \in Responses("issue") : IssueResponse(r)
    \/ \E r \in Responses("panel") : PanelResponse(r)
    \/ GetSprint
    \/ \E r \in Responses("board") : BoardResponse(r)
    \/ \E r \in Responses("sprint") : SprintResponse(r)
    \/ \E r \in Responses("issues"), t \in Nows : SprintIssuesResponse(r, t)
    \/ GetPRStatus
    \/ SearchPRs
    \/ \E f \in GithubFetches : TokenRead(f)
    \/ \E f \in GithubFetches : \E r \in Responses(f) : GithubResponse(f, r)
    \/ \E f \in GithubFetches : BodyRead(f)

Spec == Init /\ [][Next]_vars

----------------------------------------------------------------------------
(* SpecReviews: the review list of getPRStatus drawn from every list of up *)
(* to MaxReviews reviews, the loop taken one review at a time.             *)

MaxReviews == 3

Logins == {"alice", "bob", "constructor"}

ReviewStates == {"APPROVED", "CHANGES_REQUESTED", "COMMENTED"}

\* two notations of one instant, and a later instant
ReviewTimes == {IsoString(HourMs, 0), IsoString(HourMs, 1), IsoString(25 * HourMs, 0)}

ReviewEvents ==
    {Review(u, st, at) : u \in Logins, st \in ReviewStates, at \in ReviewTimes}

InitReviews ==
    /\ IdleQuery
    /\ token = TRUE
    /\ reviews \in SeqsUpTo(ReviewEvents, MaxReviews)
    /\ idx = 0
    /\ reviewsByUser = EmptyObject
    /\ approved = <<>>
    /\ changesRequested = <<>>
    /\ IdleChecks
    /\ IdleLinked

\* one turn of: for (const review of reviews) { ... }
ReviewLoop ==
    /\ outcome = Pending
    /\ idx < Len(reviews)
    /\ reviewsByUser' = ReviewLoopBody(reviewsByUser, reviews[idx + 1])
    /\ idx' = idx + 1
    /\ UNCHANGED <<queryVars, reviews, approved, changesRequested, checkVars, linkedVars>>

\* the loop over Object.entries; outcome is the reviews field of the result
ReviewSplit ==
    /\ outcome = Pending
    /\ idx = Len(reviews)
    /\ approved' = ReviewPartition(reviewsByUser).approved
    /\ changesRequested' = ReviewPartition(reviewsByUser).changesRequested
    /\ outcome' = Returned(ReviewPartition(reviewsByUser))
    /\ UNCHANGED <<query, fetchState, resp, doc, token, now>>
    /\ UNCHANGED <<reviews, idx, reviewsByUser, checkVars, linkedVars>>

NextReviews == ReviewLoop \/ ReviewSplit

SpecReviews == InitReviews /\ [][NextReviews]_vars

----------------------------------------------------------------------------
(* SpecChecks: data.check_runs drawn from every list of up to MaxRuns check *)
(* runs, any status with any conclusion.                                    *)

MaxRuns == 3

CheckRuns ==
    {CheckRun(n, st, c) :
        n \in {"build", "test"},
        st \in {"completed", "in_progress", "queued"},
        c \in {Absent, "success", "failure"}}

InitChecks ==
    /\ IdleQuery
    /\ token = TRUE
    /\ IdleReviews
    /\ runs \in SeqsUpTo(CheckRuns, MaxRuns)
    /\ checks = Undefined
    /\ IdleLinked

\* the filters of fetchChecks and its return
Rollup ==
    /\ checks = Undefined
    /\ checks' = CheckSummary(runs)
    /\ UNCHANGED <<queryVars, reviewVars, runs, linkedVars>>

NextChecks == Rollup

SpecChecks == InitChecks /\ [][NextChecks]_vars

----------------------------------------------------------------------------
(* SpecLinked: the panel document of fetchLinkedPRs drawn from every panel *)
(* of up to MaxRefs groups holding up to MaxRefs references in all.        *)

MaxRefs == 2

\* x https://github.com/octo/repo/pull/07/files
OctoPull07Files ==
    Url(<<"see ", "https:", "/", "/", "github.com", "/", "octo", "/", "repo",
          "/", "pull", "/", "0", "7", "/", "files">>)

\* https://github.com/acme/pull/42
NoRepoSegment ==
    Url(<<"https:", "/", "/", "github.com", "/", "acme", "/", "pull", "/", "4", "2">>)

\* https://github.com/acme/widgets/issues/42
IssuesUrl ==
    Url(<<"https:", "/", "/", "github.com", "/", "acme", "/", "widgets",
          "/", "issues", "/", "4", "2">>)

RefUrls == {Undefined, WidgetsPull42, OctoPull07Files, NoRepoSegment, IssuesUrl}

RefStatuses == {Undefined, StatusOPEN, StatusMerged}

Refs == {[url |-> u, status |-> st] : u \in RefUrls, st \in RefStatuses}

RECURSIVE SumSeq(_)
SumSeq(ns) == IF ns = <<>> THEN 0 ELSE Head(ns) + SumSeq(Tail(ns))

\* refs cut into groups of the given sizes
RECURSIVE Grouped(_, _)
Grouped(refs, sizes) ==
    IF sizes = <<>> THEN <<>>
    ELSE <<[pullRequests |-> SubSeq(refs, 1, Head(sizes))]>>
         \o Grouped(SubSeq(refs, Head(sizes) + 1, Len(refs)), Tail(sizes))

PanelDocs ==
    {[detail |-> Grouped(refs, sizes)] :
        <<refs, sizes>> \in
            {p \in SeqsUpTo(Refs, MaxRefs) \X SeqsUpTo(0..MaxRefs, MaxRefs) :
                SumSeq(p[2]) = Len(p[1])}}
    \cup {[errors |-> <<>>]}
    \cup {[detail |-> <<[branches |-> <<>>],
                        [pullRequests |-> <<[url |-> WidgetsPull42, status |-> StatusOPEN]>>]>>]}

InitLinked ==
    /\ IdleQuery
    /\ token = TRUE
    /\ IdleReviews
    /\ IdleChecks
    /\ panel \in PanelDocs
    /\ prs = <<>>

\* fetchLinkedPRs on a success response carrying panel; outcome is its return
Traverse ==
    /\ outcome = Pending
    /\ prs' = FetchLinkedPRs([kind |-> "ok", body |-> panel]).prs
    /\ outcome' = Returned(prs')
    /\ UNCHANGED <<query, fetchState, resp, doc, token, now>>
    /\ UNCHANGED <<reviewVars, checkVars, panel>>

NextLinked == Traverse

SpecLinked == InitLinked /\ [][NextLinked]_vars

----------------------------------------------------------------------------
(* Claims *)

Range(seq) == {seq[n] : n \in 1..Len(seq)}

NoDuplicates(seq) == \A m, n \in 1..Len(seq) : seq[m] = seq[n] => m = n

ReviewsOf(u) == {n \in 1..Len(reviews) : reviews[n].user.login = u}

\* the review that decides for u: the latest instant, the first of those
DecidingReview(u) ==
    CHOOSE n \in ReviewsOf(u) :
        \A m \in ReviewsOf(u) :
            \/ reviews[m].submitted_at.ms < reviews[n].submitted_at.ms
            \/ reviews[m].submitted_at.ms = reviews[n].submitted_at.ms /\ n <= m

VerdictOf(u) == reviews[DecidingReview(u)].state

ReviewsSplitDone == outcome.kind = "returned" /\ idx = Len(reviews)

VerdictListed(u) ==
    /\ u \in Range(approved) <=> VerdictOf(u) = "APPROVED"
    /\ u \in Range(changesRequested) <=> VerdictOf(u) = "CHANGES_REQUESTED"

\* C1: once getPRStatus has split the reviews, every reviewer of the list is
\* classified by the state of their review with the strictly latest
\* submission instant (the first encountered on a tie): listed in approved
\* iff that state is APPROVED, in changesRequested iff it is
\* CHANGES_REQUESTED, never in both lists and never twice.
C1_LatestVerdictPerReviewer ==
    ReviewsSplitDone =>
        /\ \A n \in 1..Len(reviews) : VerdictListed(reviews[n].user.login)
        /\ Range(approved) \cap Range(changesRequested) = {}
        /\ NoDuplicates(approved) /\ NoDuplicates(changesRequested)

\* The same for the reviewers whose login is not the name of a property
\* every object inherits; it holds.
LatestVerdictOfOrdinaryLogins ==
    ReviewsSplitDone =>
        /\ \A n \in 1..Len(reviews) :
              reviews[n].user.login \notin ObjectPrototypeKeys
                  => VerdictListed(reviews[n].user.login)
        /\ Range(approved) \cap Range(changesRequested) = {}
        /\ NoDuplicates(approved) /\ NoDuplicates(changesRequested)

PRStatusReturned == query = "getPRStatus" /\ outcome.kind = "returned"

\* C2: the mergeConflicts of a returned PR status is true iff the fetched
\* PR's mergeable is explicitly false or its mergeable_state is "dirty" (so
\* null or absent with another state gives false), and mergeable is returned
\* as fetched.
C2_MergeConflictDerivation ==
    PRStatusReturned =>
        /\ outcome.value.mergeConflicts <=>
               (doc["pr"].mergeable = "false" \/ doc["pr"].mergeable_state = "dirty")
        /\ (doc["pr"].mergeable \in {"null", "undefined"}
               /\ doc["pr"].mergeable_state # "dirty")
             => ~outcome.value.mergeConflicts
        /\ outcome.value.mergeable = doc["pr"].mergeable

C2_Witness ==
    /\ PRStatusReturned
    /\ doc["pr"].mergeable = "null"
    /\ doc["pr"].mergeable_state = "unknown"
    /\ outcome.value.mergeConflicts = FALSE

RunsWhere(Test(_)) == {n \in 1..Len(runs) : Test(runs[n])}

Unfinished(c) == c.status # "completed"

NonSuccess(c) == c.conclusion # Absent /\ c.conclusion # "success"

UnfinishedNonSuccess(c) == Unfinished(c) /\ NonSuccess(c)

FinishedWithoutConclusion(c) == c.status = "completed" /\ c.conclusion = Absent

Succeeded(c) == c.conclusion = "success"

RolledUp == checks # Undefined

\* C3: the summary of fetchChecks has total = the number of runs, passed =
\* the runs concluded success, failed = the runs with a conclusion other than
\* success, pending = the runs whose status is not "completed"; a run that
\* is unfinished with a non-success conclusion is in failed and in pending.
C3_CheckCounts ==
    RolledUp =>
        /\ checks.total = Len(runs)
        /\ checks.passed = Cardinality(RunsWhere(Succeeded))
        /\ checks.failed = Cardinality(RunsWhere(NonSuccess))
        /\ checks.pending = Cardinality(RunsWhere(Unfinished))
        /\ checks.failed + checks.pending
             = Cardinality(RunsWhere(NonSuccess) \cup RunsWhere(Unfinished))
               + Cardinality(RunsWhere(UnfinishedNonSuccess))

C3_Witness ==
    /\ RolledUp
    /\ RunsWhere(UnfinishedNonSuccess) # {}
    /\ RunsWhere(Succeeded) # {}
    /\ checks.failed + checks.pending > checks.total - checks.passed

SumsToTotal == checks.total = checks.passed + checks.failed + checks.pending

\* C4: whenever the summary has total = passed + failed + pending, no run is
\* unfinished with a non-success conclusion.
C4_SumImpliesNoDoubleCount ==
    (RolledUp /\ SumsToTotal) => RunsWhere(UnfinishedNonSuccess) = {}

\* C4 as amended: the same, for lists in which no run is "completed" without
\* a conclusion (such a run is in none of the three counts and offsets one
\* that is in two).
C4_SumImpliesNoDoubleCountWhenConcluded ==
    (RolledUp /\ SumsToTotal /\ RunsWhere(FinishedWithoutConclusion) = {})
        => RunsWhere(UnfinishedNonSuccess) = {}

C4_Witness ==
    /\ RolledUp
    /\ SumsToTotal
    /\ RunsWhere(FinishedWithoutConclusion) = {}
    /\ RunsWhere(Unfinished) # {}
    /\ RunsWhere(NonSuccess) # {}
    /\ RunsWhere(Succeeded) # {}

SprintReturned ==
    /\ query = "getSprint"
    /\ outcome.kind = "returned"
    /\ resp["issues"] # "none"

\* C5: for a sprint query that found an active sprint, daysRemaining is null
\* exactly when the sprint has no end date; otherwise it is the least
\* integer d >= 0 with d days >= end - now: 0 when the end is now or past,
\* 2 when it is 36 hours ahead.
C5_DaysRemaining ==
    SprintReturned =>
        LET sp == FirstValue(doc["sprint"])
            d == outcome.value.daysRemaining
        IN  /\ d = Null <=> sp.endDate = Undefined
            /\ sp.endDate # Undefined =>
                  LET left == sp.endDate.ms - now
                  IN  /\ d.num >= 0
                      /\ d.num * MsPerDay >= left
                      /\ d.num > 0 => (d.num - 1) * MsPerDay < left
                      /\ left <= 0 => d.num = 0
                      /\ left = 36 * HourMs => d.num = 2

C5_Witness ==
    /\ SprintReturned
    /\ FirstValue(doc["sprint"]).endDate # Undefined
    /\ FirstValue(doc["sprint"]).endDate.ms - now = 36 * HourMs
    /\ outcome.value.daysRemaining = Num(2)

\* s is  ...github.com/<owner>/<repo>/pull/<number>...  with the owner
\* ending at a, the repo at b and the number at c
HasPullShape(s, g, a, b, c) ==
    /\ 1 <= g /\ g + 1 < a /\ a + 1 < b /\ b + 3 < c /\ c <= Len(s)
    /\ s[g] = "github.com" /\ s[g + 1] = "/"
    /\ \A n \in (g + 2)..a : s[n] # "/"
    /\ s[a + 1] = "/"
    /\ \A n \in (a + 2)..b : s[n] # "/"
    /\ s[b + 1] = "/" /\ s[b + 2] = "pull" /\ s[b + 3] = "/"
    /\ \A n \in (b + 4)..c : IsDigit(s[n])
    /\ c < Len(s) => ~IsDigit(s[c + 1])

PullShapes(s) ==
    LET at == 1..Len(s)
        hosts == {g \in at : s[g] = "github.com"}
        slashes == {a \in at : a < Len(s) /\ s[a + 1] = "/"}
        pulls == {b \in at : b + 2 <= Len(s) /\ s[b + 2] = "pull"}
        digits == {c \in at : IsDigit(s[c])}
    IN  {p \in hosts \X slashes \X pulls \X digits :
            HasPullShape(s, p[1], p[2], p[3], p[4])}

Decimal(ds) ==
    LET Place(n) == DigitValue(ds[n]) * 10 ^ (Len(ds) - n)
        Sum[n \in 0..Len(ds)] == IF n = 0 THEN 0 ELSE Sum[n - 1] + Place(n)
    IN  Sum[Len(ds)]

ExpectedState(status) ==
    IF status = Undefined THEN Unknown
    ELSE IF status = StatusOPEN THEN <<"o", "p", "e", "n">>
    ELSE IF status = StatusMerged THEN <<"m", "e", "r", "g", "e", "d">>
    ELSE status.chars

\* what a reference is to contribute: nothing, or one LinkedPR
ExpectedOfRef(ref) ==
    IF ref.url = Undefined \/ PullShapes(ref.url.chars) = {} THEN <<>>
    ELSE LET s == ref.url.chars
             p == CHOOSE q \in PullShapes(s) : TRUE
         IN  <<[repo |-> SubSeq(s, p[1] + 2, p[3]),
                number |-> Decimal(SubSeq(s, p[3] + 4, p[4])),
                state |-> ExpectedState(ref.status)]>>

\* the references of the panel in traversal order
RefsInOrder ==
    LET groups == DetailOf(panel)
        Upto[g \in 0..Len(groups)] ==
            IF g = 0 THEN <<>> ELSE Upto[g - 1] \o PullRequestsOf(groups[g])
    IN  Upto[Len(groups)]

ExpectedPRs ==
    LET refs == RefsInOrder
        Upto[n \in 0..Len(refs)] ==
            IF n = 0 THEN <<>> ELSE Upto[n - 1] \o ExpectedOfRef(refs[n])
    IN  Upto[Len(refs)]

PanelTraversed == panel # Undefined /\ outcome.kind = "returned"

\* C6: for a fetched panel document, fetchLinkedPRs returns, in traversal
\* order, one LinkedPR per reference whose URL is present and has the shape
\* ...github.com/<owner>/<repo>/pull/<number>, with "<owner>/<repo>", the
\* number and the lowercased status ("unknown" without one); the other
\* references contribute nothing and change nothing.
C6_LinkedPRsExtracted ==
    PanelTraversed =>
        /\ prs = ExpectedPRs
        /\ panel = [detail |-> <<[pullRequests |->
                        <<[url |-> WidgetsPull42, status |-> StatusOPEN]>>]>>]
             => prs = <<[repo |-> <<"acme", "/", "widgets">>, number |-> 42,
                         state |-> <<"o", "p", "e", "n">>]>>

C6_Witness ==
    /\ PanelTraversed
    /\ Len(RefsInOrder) = 2
    /\ RefsInOrder[1].url = NoRepoSegment
    /\ RefsInOrder[2] = [url |-> OctoPull07Files, status |-> StatusMerged]
    /\ prs = <<[repo |-> <<"octo", "/", "repo">>, number |-> 7,
                state |-> <<"m", "e", "r", "g", "e", "d">>]>>

PRFetches == {"pr", "reviews", "checks"}

PRStatusFields ==
    {"number", "title", "author", "state", "draft", "mergeable",
     "mergeConflicts", "additions", "deletions", "files", "reviews", "checks"}

\* C7: in getPRStatus a non-success response to the metadata, review or
\* check-run fetch is never followed by a returned record: its github()
\* call rejects and the query ends with that error; a record is returned
\* only when all three fetches succeeded, and then whole; when no fetch is
\* left unsettled the query has returned or thrown.
C7_NoPartialPRStatus ==
    query = "getPRStatus" =>
        /\ \A f \in PRFetches :
              resp[f] = "error" =>
                  /\ outcome.kind # "returned"
                  /\ fetchState[f] \in {"text", "rejected"}
                  /\ fetchState[f] = "rejected" => outcome.kind = "threw"
        /\ outcome.kind = "returned" =>
              /\ \A f \in PRFetches : resp[f] = "ok" /\ fetchState[f] = "fulfilled"
              /\ DOMAIN outcome.value = PRStatusFields
        /\ (\A f \in PRFetches : fetchState[f] \in {"idle", "fulfilled", "rejected"})
              => outcome.kind # "pending"

C7_Witness ==
    /\ query = "getPRStatus"
    /\ resp["pr"] = "ok" /\ resp["reviews"] = "ok" /\ resp["checks"] = "error"
    /\ fetchState["checks"] = "rejected"
    /\ outcome.kind = "threw"

PanelLookupFailed ==
    \/ resp["panel"] \in {"error", "reject"}
    \/ resp["panel"] = "ok" /\ panel = Undefined

\* C8: in getIssue, once the issue fetch has succeeded, a failed panel
\* lookup (a non-success response, a rejected request, a body that does not
\* parse) gives prs = [] and the issue record is still returned.
C8_PanelFailureSwallowed ==
    (query = "getIssue" /\ resp["issue"] = "ok" /\ PanelLookupFailed) =>
        /\ prs = <<>>
        /\ outcome = Returned([key |-> doc["issue"].key,
                               summary |-> doc["issue"].fields.summary,
                               status |-> NameOf(doc["issue"].fields.status),
                               assignee |-> DisplayNameOf(doc["issue"].fields.assignee),
                               prs |-> <<>>])

C8_Witness ==
    /\ query = "getIssue"
    /\ resp["issue"] = "ok"
    /\ resp["panel"] = "reject"
    /\ outcome.kind = "returned"
    /\ outcome.value.prs = <<>>

\* C9: no query returns normally after a non-success response to any fetch
\* other than the linked-PR panel lookup.
C9_EveryOtherFetchIsFatal ==
    \A f \in FetchNames \ {"panel"} :
        resp[f] = "error" => outcome.kind # "returned"

FatalFetches == {"issue", "board", "pr", "reviews", "checks", "search"}

\* C9 as amended: a non-success response to the issue, board, PR metadata,
\* review, check-run or search fetch is never followed by a normal result,
\* nor by the next fetch of the query; a non-success active-sprint response
\* gives the "No active sprint" result, and the status of the sprint-issues
\* response is not looked at (the query returns, with no issues, when the
\* body parses).
C9_FatalFetchesAbort ==
    /\ \A f \in FatalFetches : resp[f] = "error" => outcome.kind # "returned"
    /\ resp["issue"] = "error" => fetchState["panel"] = "idle"
    /\ resp["board"] = "error" => fetchState["sprint"] = "idle"
    /\ resp["sprint"] = "error" =>
          outcome = Returned(NoActiveSprint) /\ fetchState["issues"] = "idle"
    /\ (resp["issues"] = "error" /\ outcome.kind = "returned") =>
          outcome.value.issues = <<>>

C9_Witness ==
    /\ query = "getSprint"
    /\ resp["board"] = "error"
    /\ outcome.kind = "threw"

JoinHolds ==
    query = "getPRStatus" =>
        /\ fetchState["checks"] # "idle" =>
              fetchState["pr"] = "fulfilled" /\ fetchState["reviews"] = "fulfilled"
        /\ (fetchState["pr"] = "rejected" \/ fetchState["reviews"] = "rejected") =>
              outcome.kind = "threw" /\ fetchState["checks"] = "idle"

\* C10: in getPRStatus the check-runs fetch is issued only once the
\* metadata and the review fetch have both succeeded; as soon as one of the
\* two fails the query has failed, whatever the other is doing, the
\* check-runs fetch is never issued, and what the other fetch brings later
\* changes nothing of the failure.
C10_AllOrNothingJoin ==
    /\ []JoinHolds
    /\ [][outcome.kind = "threw" =>
             outcome' = outcome /\ fetchState'["checks"] = fetchState["checks"]]_vars

C10_Witness ==
    /\ query = "getPRStatus"
    /\ fetchState["pr"] = "rejected"
    /\ fetchState["reviews"] = "inflight"
    /\ outcome.kind = "threw"

====
